---- MODULE Spec2Model ----
(***************************************************************************)
(* A model of the streaming FASTA reader of src/src/fasta.rs.              *)
(*                                                                         *)
(* A Rust String is modelled as a sequence of one-character strings.  The  *)
(* characters are grouped by what the code can tell apart:                 *)
(*   ">"   the record marker                                               *)
(*   "A"   any ASCII character that is neither whitespace nor the marker   *)
(*   "U"   any non-ASCII, non-whitespace character (e.g. U+00E9)           *)
(*   " "   any whitespace character other than the line feed (space, tab,  *)
(*         carriage return)                                                *)
(*   "\n"  the line feed, at which BufRead::read_line stops                *)
(***************************************************************************)
EXTENDS Integers, Sequences, FiniteSets, TLC

VARIABLES
    data,               \* the bytes of the underlying source B (fixed)
    pos,                \* FastaReader.reader: number of characters consumed
    line_cache,         \* FastaReader.line_cache
    error_has_occured,  \* FastaReader.error_has_occured
    results,            \* what each call of next returned so far, in order
    rec,                \* a FastaSequence held by the caller
    chk,                \* what check() returned for rec ("" before the call)
    text                \* what Display wrote for rec (<<>> before the call)

vars == <<data, pos, line_cache, error_has_occured, results, rec, chk, text>>

(***************************************************************************)
(* Bounds of the model.                                                    *)
(***************************************************************************)
MaxLen == 6        \* longest source, in characters
MaxCalls == 5      \* calls of next on one reader
MaxFieldLen == 1   \* longest id, desc and seq of a record built by the caller

GT == ">"
NL == "\n"
AsciiChars == {">", "A", " ", "\n"}
Chars == AsciiChars \cup {"U"}

Min(a, b) == IF a < b THEN a ELSE b

\* char::is_whitespace
is_whitespace(c) == c \in {" ", "\n"}

\* char::is_ascii
is_ascii_char(c) == c \in AsciiChars

\* str::is_ascii
is_ascii(s) == \A i \in 1..Len(s) : is_ascii_char(s[i])

\* starts_with with the marker forgotten: any non-empty line passes
starts_with_gt_AnyLine(s) == Len(s) > 0

\* str::starts_with('>')
starts_with_gt(s) == Len(s) > 0 /\ s[1] = GT

\* trim_end that drops the line feed only
trim_end_TerminatorOnly(s) ==
    IF s # <<>> /\ s[Len(s)] = NL THEN SubSeq(s, 1, Len(s) - 1) ELSE s

\* str::trim_end: drop every trailing whitespace character
RECURSIVE trim_end(_)
trim_end(s) ==
    IF s = <<>> THEN <<>>
    ELSE IF is_whitespace(s[Len(s)]) THEN trim_end(SubSeq(s, 1, Len(s) - 1))
    ELSE s

\* a split that swallows the whole run of whitespace after the first field
RECURSIVE splitn2_WholeRun(_, _)
splitn2_WholeRun(first, rest) ==
    IF rest = <<>> THEN <<first>>
    ELSE IF is_whitespace(rest[1])
         THEN IF Len(rest) > 1 /\ is_whitespace(rest[2])
              THEN splitn2_WholeRun(first, Tail(rest))
              ELSE <<first, Tail(rest)>>
    ELSE splitn2_WholeRun(Append(first, rest[1]), Tail(rest))

\* str::splitn(2, char::is_whitespace): at most two fields, cut at the first
\* character the predicate accepts; the rest of the string is the second field
RECURSIVE splitn2(_, _)
splitn2(first, rest) ==
    IF rest = <<>> THEN <<first>>
    ELSE IF is_whitespace(rest[1]) THEN <<first, Tail(rest)>>
    ELSE splitn2(Append(first, rest[1]), Tail(rest))

\* Option<String>
None == [some |-> FALSE, val |-> <<>>]
Some(s) == [some |-> TRUE, val |-> s]

\* FastaSequence::new
FastaSequence_new == [id |-> <<>>, desc |-> None, seq |-> <<>>]

\* FastaSequence::with_attrs
with_attrs(id, desc, seq) == [id |-> id, desc |-> desc, seq |-> seq]

\* is_empty that looks at the sequence alone
is_empty_SeqOnly(r) == r.seq = <<>>

\* FastaSequence::is_empty
is_empty(r) == r.id = <<>> /\ ~r.desc.some /\ r.seq = <<>>

\* FastaSequence::check
CheckOk == "Ok"
MissingId == "Expecting id for Fasta record."
NonAscii == "Non-ascii character found in sequence."

\* check with its two tests in the other order
check_AsciiFirst(r) ==
    IF \E i \in 1..Len(r.seq) : r.seq[i] \notin {">", "A", " ", "\n"} THEN NonAscii
    ELSE IF r.id = <<>> THEN MissingId
    ELSE CheckOk

check(r) ==
    IF r.id = <<>> THEN MissingId
    ELSE IF ~is_ascii(r.seq) THEN NonAscii
    ELSE CheckOk

\* Display without the space between id and description
fmt_NoSeparator(r) ==
    LET header == IF r.desc.some THEN r.id \o r.desc.val ELSE r.id
    IN  <<">">> \o header \o <<"\n">> \o r.seq \o <<"\n">>

\* Display that writes the separating space also when desc is None
fmt_AlwaysSpace(r) ==
    LET header == r.id \o <<" ">> \o r.desc.val
    IN  <<">">> \o header \o <<"\n">> \o r.seq \o <<"\n">>

\* impl fmt::Display for FastaSequence
fmt(r) ==
    LET header == IF r.desc.some THEN r.id \o <<" ">> \o r.desc.val ELSE r.id
    IN  <<GT>> \o header \o <<NL>> \o r.seq \o <<NL>>

(***************************************************************************)
(* BufRead::read_line on the source d at position p, appending to buf.     *)
(* When the read fails, the `keep` characters the source delivered before  *)
(* the failure stay in buf (an I/O error in the middle of a line); keep = 0*)
(* is also what a line that is not UTF-8 leaves behind.                    *)
(***************************************************************************)
RECURSIVE line_end(_, _)
line_end(d, i) ==
    IF i > Len(d) THEN Len(d)
    ELSE IF d[i] = NL THEN i
    ELSE line_end(d, i + 1)

\* a read that does not stop at the line feed and takes the rest of the source
read_line_ToEnd(d, p, buf, failing, keep) ==
    LET line == SubSeq(d, p + 1, Len(d))
        k == Min(keep, Len(line))
    IN  IF failing
        THEN [ok |-> FALSE, buf |-> buf \o SubSeq(line, 1, k), pos |-> p + k, avail |-> Len(line)]
        ELSE [ok |-> TRUE, buf |-> buf \o line, pos |-> Len(d), avail |-> Len(line)]

read_line(d, p, buf, failing, keep) ==
    LET e == line_end(d, p + 1)
        line == SubSeq(d, p + 1, e)
        avail == IF line # <<>> /\ line[Len(line)] = NL THEN Len(line) - 1 ELSE Len(line)
        k == Min(keep, avail)
    IN  IF failing
        THEN [ok |-> FALSE, buf |-> buf \o SubSeq(line, 1, k), pos |-> p + k, avail |-> avail]
        ELSE [ok |-> TRUE, buf |-> buf \o line, pos |-> e, avail |-> avail]

MalformedMsg == "Expected > at record start."
IoMsg == "io"

\* the loop with a blank line taken for the end of the record
RECURSIVE read_loop_BlankEndsRecord(_, _, _, _, _, _)
read_loop_BlankEndsRecord(d, p, record, n, at, keep) ==
    LET rl == read_line(d, p, <<>>, at = n + 1, keep)
    IN  IF ~rl.ok
        THEN [err |-> IoMsg, pos |-> rl.pos, line_cache |-> rl.buf,
              record |-> record, reads |-> n + 1, avail |-> rl.avail]
        ELSE IF trim_end(rl.buf) = <<>> \/ starts_with_gt(rl.buf)
        THEN [err |-> "", pos |-> rl.pos, line_cache |-> rl.buf,
              record |-> record, reads |-> n + 1, avail |-> 0]
        ELSE read_loop_BlankEndsRecord(d, rl.pos,
                       [record EXCEPT !.seq = @ \o trim_end(rl.buf)],
                       n + 1, at, keep)

\* The loop of FastaReader::read; n read_line calls were made before it.
RECURSIVE read_loop(_, _, _, _, _, _)
read_loop(d, p, record, n, at, keep) ==
    LET rl == read_line(d, p, <<>>, at = n + 1, keep)
    IN  IF ~rl.ok
        THEN [err |-> IoMsg, pos |-> rl.pos, line_cache |-> rl.buf,
              record |-> record, reads |-> n + 1, avail |-> rl.avail]
        ELSE IF rl.buf = <<>> \/ starts_with_gt(rl.buf)
        THEN [err |-> "", pos |-> rl.pos, line_cache |-> rl.buf,
              record |-> record, reads |-> n + 1, avail |-> 0]
        ELSE read_loop(d, rl.pos,
                       [record EXCEPT !.seq = @ \o trim_end(rl.buf)],
                       n + 1, at, keep)

\* the header fields taken from the line as read, nothing trimmed
header_fields_Untrimmed(cache) == splitn2(<<>>, Tail(cache))

\* The header fields of a cached header line
header_fields(cache) == splitn2(<<>>, trim_end(Tail(cache)))

\* FastaReader::read.  The at-th read_line of the call fails (at = 0: none).
read(d, p, cache, at, keep) ==
    LET first == IF cache = <<>>
                 THEN read_line(d, p, cache, at = 1, keep)
                 ELSE [ok |-> TRUE, buf |-> cache, pos |-> p, avail |-> 0]
        n == IF cache = <<>> THEN 1 ELSE 0
    IN  IF ~first.ok
        THEN [err |-> IoMsg, pos |-> first.pos, line_cache |-> first.buf,
              record |-> FastaSequence_new, reads |-> n, avail |-> first.avail]
        ELSE IF first.buf = <<>>
        THEN [err |-> "", pos |-> first.pos, line_cache |-> first.buf,
              record |-> FastaSequence_new, reads |-> n, avail |-> 0]
        ELSE IF ~starts_with_gt(first.buf)
        THEN [err |-> MalformedMsg, pos |-> first.pos, line_cache |-> first.buf,
              record |-> FastaSequence_new, reads |-> n, avail |-> 0]
        ELSE LET hf == header_fields(first.buf)
                 record == [id |-> hf[1],
                            desc |-> IF Len(hf) > 1 THEN Some(hf[2]) ELSE None,
                            seq |-> <<>>]
             IN  read_loop(d, first.pos, record, n, at, keep)

\* next that forgets to set the flag
flag_after_NeverSet(err) == FALSE

\* The flag FastaReader::next leaves behind, given what read returned
flag_after(err) == err # ""

\* FastaReader::next
next(d, p, cache, flag, at, keep) ==
    IF flag
    THEN [kind |-> "none", rec |-> FastaSequence_new, err |-> "", reads |-> 0,
          pos |-> p, line_cache |-> cache, flag |-> flag, avail |-> 0]
    ELSE LET r == read(d, p, cache, at, keep)
         IN  [kind |-> IF r.err # "" THEN "err"
                       ELSE IF is_empty(r.record) THEN "none" ELSE "ok",
              rec |-> IF r.err = "" /\ ~is_empty(r.record) THEN r.record
                      ELSE FastaSequence_new,
              err |-> r.err, reads |-> r.reads,
              pos |-> r.pos, line_cache |-> r.line_cache,
              flag |-> flag_after(r.err), avail |-> r.avail]

Outcome(r) == [kind |-> r.kind, rec |-> r.rec, err |-> r.err, reads |-> r.reads]

(***************************************************************************)
(* The reader over every source of at most MaxLen characters.              *)
(***************************************************************************)
Sources == UNION {[1..n -> Chars] : n \in 0..MaxLen}

\* FastaReader::new
Init ==
    /\ data \in Sources
    /\ pos = 0
    /\ line_cache = <<>>
    /\ error_has_occured = FALSE
    /\ results = <<>>
    /\ rec = FastaSequence_new
    /\ chk = ""
    /\ text = <<>>

Commit(r) ==
    /\ pos' = r.pos
    /\ line_cache' = r.line_cache
    /\ error_has_occured' = r.flag
    /\ results' = Append(results, Outcome(r))
    /\ UNCHANGED <<data, rec, chk, text>>

\* One call of next whose reads all succeed
CallNext ==
    /\ Len(results) < MaxCalls
    /\ Commit(next(data, pos, line_cache, error_has_occured, 0, 0))

\* One call of next during which the source fails
CallNextFailing ==
    /\ Len(results) < MaxCalls
    /\ \E at \in 1..(MaxLen + 1) :
         LET probe == next(data, pos, line_cache, error_has_occured, at, 0)
         IN  /\ probe.err = IoMsg
             /\ \E keep \in 0..probe.avail :
                  Commit(next(data, pos, line_cache, error_has_occured, at, keep))

Next == CallNext \/ CallNextFailing

Spec == Init /\ [][Next]_vars

(***************************************************************************)
(* A record built by the caller (with_attrs), then checked and formatted.  *)
(***************************************************************************)
Fields == UNION {[1..n -> Chars] : n \in 0..MaxFieldLen}

InitRec ==
    /\ data = <<>>
    /\ pos = 0
    /\ line_cache = <<>>
    /\ error_has_occured = FALSE
    /\ results = <<>>
    /\ rec \in {with_attrs(i, d, s) :
                  i \in Fields, d \in {None} \cup {Some(x) : x \in Fields}, s \in Fields}
    /\ chk = ""
    /\ text = <<>>

\* rec.check(): takes &self, so rec stays as it is
CallCheck ==
    /\ chk = ""
    /\ chk' = check(rec)
    /\ UNCHANGED <<data, pos, line_cache, error_has_occured, results, rec, text>>

\* format!("{}", rec)
CallFmt ==
    /\ text = <<>>
    /\ text' = fmt(rec)
    /\ UNCHANGED <<data, pos, line_cache, error_has_occured, results, rec, chk>>

NextRec == CallCheck \/ CallFmt

SpecRec == InitRec /\ [][NextRec]_vars

(***************************************************************************)
(* The input as the claims describe it: its lines, its header lines and    *)
(* the lines that follow each header.  None of this uses the reader.       *)
(***************************************************************************)
\* positions at which a line of d starts
LineStarts(d) ==
    {s \in 1..Len(d) : s = 1 \/ d[s - 1] = NL}

\* the line starting at s, with its terminator if it has one
LineAt(d, s) ==
    LET ends == {i \in s..Len(d) : d[i] = NL \/ i = Len(d)}
    IN  SubSeq(d, s, CHOOSE e \in ends : \A f \in ends : e <= f)

HeaderStarts(d) == {s \in LineStarts(d) : d[s] = GT}

NumHeaders(d) == Cardinality(HeaderStarts(d))

\* where the k-th header line starts
HeaderStart(d, k) ==
    CHOOSE s \in HeaderStarts(d) : Cardinality({t \in HeaderStarts(d) : t <= s}) = k

\* the starts of the lines between the k-th header and the next one
BodyStarts(d, k) ==
    LET h == HeaderStart(d, k)
    IN  {s \in LineStarts(d) : s > h /\ \A t \in HeaderStarts(d) : t > h => s < t}

\* a line without its terminator, every other character kept
StripTerminator(l) ==
    IF l # <<>> /\ l[Len(l)] = NL THEN SubSeq(l, 1, Len(l) - 1) ELSE l

\* a line up to its last character that is not whitespace
StripTrailingWhitespace(l) ==
    LET keep == {i \in 1..Len(l) : ~is_whitespace(l[i])}
    IN  IF keep = {} THEN <<>>
        ELSE SubSeq(l, 1, CHOOSE i \in keep : \A j \in keep : j <= i)

\* the lines starting at the positions S, in input order, each put through
\* Strip and joined with nothing in between
RECURSIVE Joined(_, _, _)
Joined(Strip(_), d, S) ==
    IF S = {} THEN <<>>
    ELSE LET s == CHOOSE x \in S : \A y \in S : x <= y
         IN  Strip(LineAt(d, s)) \o Joined(Strip, d, S \ {s})

\* the header line's text after the marker, trailing whitespace dropped
HeaderText(d, k) == StripTrailingWhitespace(Tail(LineAt(d, HeaderStart(d, k))))

WhitespaceAt(t) == {i \in 1..Len(t) : is_whitespace(t[i])}

FirstOf(S) == CHOOSE i \in S : \A j \in S : i <= j

\* the text up to the first whitespace character
ExpectedId(t) ==
    IF WhitespaceAt(t) = {} THEN t ELSE SubSeq(t, 1, FirstOf(WhitespaceAt(t)) - 1)

\* everything after the first whitespace character
DescAfterFirstWhitespace(t) ==
    IF WhitespaceAt(t) = {} THEN None
    ELSE Some(SubSeq(t, FirstOf(WhitespaceAt(t)) + 1, Len(t)))

\* everything after the first run of whitespace
DescAfterFirstRun(t) ==
    IF WhitespaceAt(t) = {} THEN None
    ELSE LET w == FirstOf(WhitespaceAt(t))
             after == {i \in (w + 1)..Len(t) : ~is_whitespace(t[i])}
         IN  Some(SubSeq(t, FirstOf(after), Len(t)))

\* the record the k-th header and its lines stand for
ExpectedRecord(d, k) ==
    [id |-> ExpectedId(HeaderText(d, k)),
     desc |-> DescAfterFirstWhitespace(HeaderText(d, k)),
     seq |-> Joined(StripTrailingWhitespace, d, BodyStarts(d, k))]

\* every header has a non-empty id and the input starts with a header
WellFormed(d) ==
    /\ d # <<>> => d[1] = GT
    /\ \A s \in HeaderStarts(d) : s + 1 <= Len(d) /\ ~is_whitespace(d[s + 1])

\* no read of the source has failed
NoIoFailure == \A i \in 1..Len(results) : results[i].err # IoMsg

EndOfSequence(reads) ==
    [kind |-> "none", rec |-> FastaSequence_new, err |-> "", reads |-> reads]

(***************************************************************************)
(* Claims about the reader (specification Spec).                           *)
(***************************************************************************)

\* C1: over a well-formed input of N records (every header has a non-empty
\* id, the input starts with a header) whose reads all succeed, the k-th call
\* of next yields the record of the k-th header for k <= N, and every call
\* after the N-th returns None; on the empty input the first call already does.
C1_WellFormedYieldsRecordsInOrder ==
    (WellFormed(data) /\ NoIoFailure) =>
        \A k \in 1..Len(results) :
            IF k <= NumHeaders(data)
            THEN /\ results[k].kind = "ok"
                 /\ results[k].rec = ExpectedRecord(data, k)
            ELSE /\ results[k] = EndOfSequence(1)
                 /\ ~error_has_occured

\* two records were yielded in order, then None twice
C1_Witness ==
    /\ WellFormed(data) /\ NoIoFailure
    /\ NumHeaders(data) = 2
    /\ Len(results) = 4
    /\ results[1].kind = "ok" /\ results[2].kind = "ok"
    /\ results[1].rec # results[2].rec
    /\ results[3].kind = "none" /\ results[4].kind = "none"

\* C2: once a call of next has returned None, no later call on the same
\* reader returns Some, whatever the input.
\* (Stated for sources whose reads all succeed: the permanence must not rest
\* on a read failing.)
C2_ExhaustionIsPermanent ==
    NoIoFailure =>
        \A i, j \in 1..Len(results) :
            (i < j /\ results[i].kind = "none") => results[j].kind = "none"

\* C3: a call of next that fails returns the error and no record, leaves the
\* sticky flag set, and every later call returns None without reading the
\* source, so the error is reported once.
C3_ErrorIsStickyAndReportedOnce ==
    \A i \in 1..Len(results) :
        /\ results[i].err # "" => results[i].kind = "err"
        /\ results[i].kind = "err" =>
              /\ results[i].rec = FastaSequence_new
              /\ results[i].err \in {IoMsg, MalformedMsg}
              /\ error_has_occured
              /\ \A j \in (i + 1)..Len(results) : results[j] = EndOfSequence(0)

\* a record, then a read failure on a sequence line, then None twice
C3_Witness ==
    /\ Len(results) = 4
    /\ results[1].kind = "ok"
    /\ results[2].err = IoMsg /\ results[2].reads >= 2
    /\ results[3].kind = "none" /\ results[4].kind = "none"

\* C4: when the first line of a non-empty input does not start with '>' (a
\* blank line included) and is read successfully, the first call returns the
\* malformed-input error, no call yields a record, every later call returns
\* None, and the source is never read beyond that first line.
C4_MalformedStartIsTerminal ==
    (data # <<>> /\ data[1] # GT /\ results # <<>> /\ results[1].err # IoMsg) =>
        /\ results[1].kind = "err"
        /\ results[1].err = MalformedMsg
        /\ \A j \in 2..Len(results) : results[j].kind = "none"
        /\ pos = Len(LineAt(data, 1))
        /\ line_cache = LineAt(data, 1)

\* a blank first line before a header: the error, then None twice
C4_Witness ==
    /\ data # <<>> /\ data[1] = NL
    /\ HeaderStarts(data) # {}
    /\ Len(results) = 3
    /\ results[1].err = MalformedMsg
    /\ results[3].kind = "none"

\* C5: when next returns None with the error flag unset, the source is at
\* end-of-file and the lookahead cache is empty.
C5_NoneOnlyAtEndOfInput ==
    (results # <<>> /\ results[Len(results)].kind = "none" /\ ~error_has_occured) =>
        /\ pos = Len(data)
        /\ line_cache = <<>>

\* the k-th call yielded a record
Yielded(k) == k \in 1..Len(results) /\ results[k].kind = "ok"

\* C6 as claimed: the seq of every yielded record is its lines joined in
\* input order with nothing in between, each line without its terminator
\* and with every other character kept, trailing blanks included.
C6_SeqKeepsAllButTerminators ==
    \A k \in 1..Len(results) :
        Yielded(k) =>
            results[k].rec.seq = Joined(StripTerminator, data, BodyStarts(data, k))

\* C6 as amended: the seq of every yielded record is its lines joined in
\* input order with nothing in between, each line without its trailing
\* whitespace (the terminator and any blanks before it).
C6_SeqJoinsTrimmedLines ==
    \A k \in 1..Len(results) :
        Yielded(k) =>
            results[k].rec.seq =
                Joined(StripTrailingWhitespace, data, BodyStarts(data, k))

\* a record of two lines, one of them with a blank before its terminator
C6_Witness ==
    \E k \in 1..Len(results) :
        /\ Yielded(k)
        /\ Cardinality(BodyStarts(data, k)) >= 2
        /\ \E s \in BodyStarts(data, k) :
              /\ StripTerminator(LineAt(data, s)) # StripTrailingWhitespace(LineAt(data, s))
              /\ StripTrailingWhitespace(LineAt(data, s)) # <<>>
        /\ Len(results[k].rec.seq) >= 2

Reparse(t) ==
    LET one == next(t, 0, <<>>, FALSE, 0, 0)
        two == next(t, one.pos, one.line_cache, one.flag, 0, 0)
    IN  <<one, two>>

\* C8: writing a yielded record with Display and parsing the text with a
\* fresh reader yields that record and then None, and formatting the parsed
\* record gives the same text.
C8_FormatParseRoundTrip ==
    \A k \in 1..Len(results) :
        Yielded(k) =>
            LET r == results[k].rec
                back == Reparse(fmt(r))
            IN  /\ back[1].kind = "ok"
                /\ back[1].rec = r
                /\ back[2].kind = "none"
                /\ ~back[2].flag
                /\ back[2].pos = Len(fmt(r))
                /\ fmt(back[1].rec) = fmt(r)

\* a yielded record whose sequence spanned two lines of the input
C8_Witness ==
    \E k \in 1..Len(results) :
        /\ Yielded(k)
        /\ Cardinality({s \in BodyStarts(data, k) :
                           StripTrailingWhitespace(LineAt(data, s)) # <<>>}) >= 2
        /\ results[k].rec.id # <<>>

\* C9: over a source whose reads all succeed and that starts with a header,
\* every header line, whatever its content, gives an Ok record and leaves
\* the sticky flag unset.
C9_EveryHeaderYieldsARecord ==
    (data # <<>> /\ data[1] = GT /\ NoIoFailure) =>
        /\ ~error_has_occured
        /\ \A k \in 1..Len(results) :
              k <= NumHeaders(data) => results[k].kind = "ok"

(***************************************************************************)
(* Claims about a record (specification SpecRec).                          *)
(***************************************************************************)

\* C10: check returns the missing-id error when id is empty, whatever seq
\* holds; otherwise the non-ASCII error when seq holds a non-ASCII
\* character; otherwise Ok.  desc plays no part.
C10_CheckClassifies ==
    chk # "" =>
        chk = CASE rec.id = <<>> -> MissingId
                [] rec.id # <<>> /\ (\E i \in 1..Len(rec.seq) : rec.seq[i] = "U") -> NonAscii
                [] OTHER -> CheckOk

\* a record with no id, a description and a non-ASCII sequence was checked
C10_Witness ==
    /\ chk = MissingId
    /\ rec.id = <<>>
    /\ rec.desc.some
    /\ \E i \in 1..Len(rec.seq) : rec.seq[i] = "U"

\* C11: Display writes '>', the id, then one space and desc only when desc is
\* present, a line feed, the whole seq on one line, and a line feed.
C11_DisplayLayout ==
    text # <<>> =>
        LET n == Len(rec.id)
            m == IF rec.desc.some THEN 1 + Len(rec.desc.val) ELSE 0
            q == Len(rec.seq)
        IN  /\ Len(text) = 1 + n + m + 1 + q + 1
            /\ text[1] = ">"
            /\ \A i \in 1..n : text[1 + i] = rec.id[i]
            /\ rec.desc.some =>
                  /\ text[1 + n + 1] = " "
                  /\ \A i \in 1..Len(rec.desc.val) : text[1 + n + 1 + i] = rec.desc.val[i]
            /\ text[1 + n + m + 1] = "\n"
            /\ \A i \in 1..q : text[1 + n + m + 1 + i] = rec.seq[i]
            /\ text[Len(text)] = "\n"

\* a record with an id and a sequence but no description was formatted
C11_Witness ==
    /\ text # <<>>
    /\ ~rec.desc.some
    /\ rec.id # <<>>
    /\ rec.seq # <<>>

\* no call so far has returned an error
NoError == \A i \in 1..Len(results) : results[i].kind # "err"

\* C12: while no call fails, every line is read from the source once: the
\* k-th call reads the lines of the k-th record and the one line (or the end
\* of input) that ends it, the first call also the first header; the header
\* that ends record k is not read again and heads record k+1; every line
\* that does not start with '>', a blank one included, goes to the record of
\* the header before it and neither ends it nor raises an error.
C12_EveryLineReadOnce ==
    NoError =>
        \A k \in 1..Len(results) :
            IF k <= NumHeaders(data)
            THEN /\ results[k].reads =
                       (IF k = 1 THEN 1 ELSE 0) + Cardinality(BodyStarts(data, k)) + 1
                 /\ IF is_empty(ExpectedRecord(data, k))
                    THEN results[k].kind = "none"
                    ELSE /\ results[k].kind = "ok"
                         /\ results[k].rec = ExpectedRecord(data, k)
            ELSE results[k] = EndOfSequence(1)

\* a first record with a blank line in it, then the record of the header
\* that ended it
C12_Witness ==
    /\ NoError
    /\ Len(results) >= 2
    /\ results[1].kind = "ok" /\ results[2].kind = "ok"
    /\ \E s \in BodyStarts(data, 1) : LineAt(data, s) = <<NL>>

\* line_cache is empty or is one header line of the input, the one the
\* source was last read up to
CacheIsPendingHeader ==
    \/ line_cache = <<>>
    \/ \E s \in HeaderStarts(data) :
          /\ line_cache = LineAt(data, s)
          /\ pos = s + Len(line_cache) - 1

\* line_cache is empty exactly when the input holds no header beyond those
\* the calls so far have used, and then the source is at its end
CacheEmptyIffInputUsedUp ==
    /\ line_cache = <<>> <=> Len(results) >= NumHeaders(data)
    /\ line_cache = <<>> => pos = Len(data)

\* C13 as claimed: at construction line_cache is empty, and after every call
\* of next that returns a record or None it is empty or one header line of
\* the input, empty exactly when the input is used up.
\* (Stated for sources whose reads all succeed.)
C13_CacheAfterEveryRecordOrNone ==
    NoIoFailure =>
        /\ results = <<>> => line_cache = <<>>
        /\ (results # <<>> /\ results[Len(results)].kind \in {"ok", "none"}) =>
              /\ CacheIsPendingHeader
              /\ CacheEmptyIffInputUsedUp

\* C13 as amended: at construction line_cache is empty, and after every call
\* of next on a reader that has not failed (the call returns a record or
\* None and the sticky flag is unset) it is empty or one header line of the
\* input, empty exactly when the input is used up.
C13_CacheWhileNotFailed ==
    /\ results = <<>> => line_cache = <<>>
    /\ (results # <<>> /\ ~error_has_occured) =>
          /\ results[Len(results)].kind \in {"ok", "none"}
          /\ CacheIsPendingHeader
          /\ CacheEmptyIffInputUsedUp

\* after a record of two lines the cache holds the header of the next one
C13_Witness ==
    /\ Len(results) = 1 /\ results[1].kind = "ok"
    /\ Cardinality(BodyStarts(data, 1)) >= 2
    /\ line_cache # <<>>
    /\ ~error_has_occured

\* the number of lines of the source
NumLines(d) == Cardinality(LineStarts(d))

\* one of the first n calls of next returned None
NoneWithin(n) == \E k \in 1..Min(n, Len(results)) : results[k].kind = "none"

\* C14 as claimed: over a source of L lines, with or without read failures,
\* one of the first L + 1 calls of next returns None.
C14_NoneWithinLinesPlusOne ==
    Len(results) >= NumLines(data) + 1 => NoneWithin(NumLines(data) + 1)

\* C14 as amended: over a source of L lines one of the first L + 1 calls of
\* next returns None when no read fails, and one of the first L + 2 calls
\* when a read fails.
C14_NoneWithinLinesPlusTwo ==
    /\ (NoIoFailure /\ Len(results) >= NumLines(data) + 1) =>
          NoneWithin(NumLines(data) + 1)
    /\ Len(results) >= NumLines(data) + 2 => NoneWithin(NumLines(data) + 2)

\* every line gave a record, the read after them failed, and only the call
\* after that returned None
C14_Witness ==
    /\ NumLines(data) >= 2
    /\ Len(results) = NumLines(data) + 2
    /\ \A k \in 1..NumLines(data) : results[k].kind = "ok"
    /\ results[NumLines(data) + 1].err = IoMsg
    /\ results[NumLines(data) + 2].kind = "none"

\* C15: the malformed-input error is returned by the first call only, and
\* only for the first line of the source; once a call has yielded a record,
\* the only error a later call can return is a read failure.
C15_MalformedOnlyAtFirstLine ==
    /\ \A k \in 1..Len(results) :
          results[k].err = MalformedMsg =>
              /\ k = 1
              /\ results[k].reads = 1
              /\ data # <<>> /\ data[1] # GT
    /\ (\E i \in 1..Len(results) : results[i].kind = "ok") =>
          \A j \in 1..Len(results) :
              results[j].kind = "err" => results[j].err = IoMsg

\* a record that took in a blank line and a line not starting with '>',
\* then a read failure
C15_Witness ==
    /\ Len(results) >= 2
    /\ results[1].kind = "ok"
    /\ \E s, t \in BodyStarts(data, 1) :
          LineAt(data, s) = <<NL>> /\ StripTrailingWhitespace(LineAt(data, t)) # <<>>
    /\ results[2].err = IoMsg

\* C16: in every yielded record desc is absent or a non-empty string that
\* does not end in whitespace, id holds no whitespace, and seq neither ends
\* in whitespace nor starts with '>'.
C16_YieldedFieldsAreTrimmed ==
    \A k \in 1..Len(results) :
        Yielded(k) =>
            LET r == results[k].rec
            IN  /\ r.desc.some =>
                      /\ r.desc.val # <<>>
                      /\ ~is_whitespace(r.desc.val[Len(r.desc.val)])
                /\ ~r.desc.some => r.desc.val = <<>>
                /\ \A i \in 1..Len(r.id) : ~is_whitespace(r.id[i])
                /\ r.seq # <<>> =>
                      /\ ~is_whitespace(r.seq[Len(r.seq)])
                      /\ r.seq[1] # GT

\* a header whose id is followed by whitespace only, and a sequence line
\* with a blank before its terminator
C16_Witness ==
    \E k \in 1..Len(results) :
        /\ Yielded(k)
        /\ LET h == LineAt(data, HeaderStart(data, k))
           IN  Len(h) >= 3 /\ ~is_whitespace(h[2]) /\ h[3] = " "
        /\ ~results[k].rec.desc.some
        /\ results[k].rec.seq # <<>>
        /\ \E s \in BodyStarts(data, k) :
              LET l == StripTerminator(LineAt(data, s))
              IN  l # <<>> /\ is_whitespace(l[Len(l)])

====
